---- MODULE Spec2Model ----
(***************************************************************************)
(* State-machine model of the live-audio client (GeminiLiveClient and the  *)
(* LiveAudio page's playback queue) and of the WebSocket relay in front of  *)
(* the remote voice service.                                                *)
(*                                                                          *)
(* JavaScript runs one task at a time: every action below is one task (an   *)
(* event handler run to completion), and the continuation of an `await` on  *)
(* an already settled promise is a microtask that runs before the next      *)
(* task.  Wall-clock time is counted in half seconds, the playback clock   *)
(* in ticks of its own.                                                    *)
(***************************************************************************)
EXTENDS Integers, Sequences, FiniteSets, TLC

\* ------------------------------------------------------------------ bounds
MaxSockets == 2       \* WebSocket objects the client may create
MaxUp == 3            \* events delivered by the upstream live sessions
MaxCapture == 2       \* frames delivered by the capture processor
MaxUser == 3          \* user actions (start / stop / reset / model change)
MaxFaults == 1        \* injected transport / fetch failures and foreign messages
MaxClock == 3         \* last value of the playback clock
SampleGrid == 131072  \* samples are the multiples of 1 / SampleGrid in [-1, 1]
MaxBytes == 9         \* longest byte string handed to the decoder
MaxChannels == 2      \* largest channel count handed to the decoder
MaxSamples == 6       \* longest frame (in samples) encoded and decoded again, but for the processor's
MaxPolls == 2         \* iterations of a waitMessage loop that are followed

\* ------------------------------------------------------- program constants
ReconnectDelay == 4   \* setTimeout(..., 2000), in half seconds
ModelChangeDelay == 1 \* setTimeout(..., 500), in half seconds
EncodeScale == 32767  \* Math.round(clamped * 32767)
DecodeScale == 32768  \* dataInt16[i] / 32768.0
PlaybackRate == 24000 \* the rate the page decodes and plays at
CaptureRate == 16000  \* the rate of the capture context
ProcessorFrame == 4096 \* createScriptProcessor(4096, 1, 1)

Sockets == 1..MaxSockets
Durations == {1, 2}   \* chunk durations (seconds) the upstream may produce
NormalCodes == {1000, 1001}

VARIABLES
    \* GeminiLiveClient
    connectionState,  \* "disconnected" | "connecting" | "connected" | "error"
    websocket,        \* this.websocket: 0 (null) or a socket id
    sources,          \* this.sources
    sock,             \* sock[s]: the browser WebSocket object s (auto: created by a reconnect timeout;
                      \* cut: the connect calls made when a disconnect() found its connect() pending)
    inbox,            \* inbox[s]: frames relay -> client still in flight
    toSrv,            \* toSrv[s]: messages client -> relay still in flight
    fetches,          \* connect() calls suspended at `await fetch`
    timer,            \* timer[s]: time left of the reconnect timeout set by s.onclose, -1 if none
    modelTimer,       \* time left of the timeout set by handleModelChange, -1 if none
    \* LiveAudio page, capture side
    isRecording, audioCtx, procOn,
    \* LiveAudio page, playback side
    ctxState,         \* playbackAudioContextRef: "none" | "suspended" | "running"
    currentTime,      \* playbackAudioContextRef.current.currentTime
    audioQueue, nextPlayTime, isPlaying,
    source,           \* the started AudioBufferSourceNode whose onended has not run, or NoSource
    resumeWaiters,    \* playAudioResponse calls suspended at `await resume()`
    decoding,         \* playAudioResponse calls suspended at `await customDecodeAudioData`
    \* relay (routes.ts), one entry per client connection
    live,             \* live[s]: liveSession of connection s, the number of audio messages handed
                      \* to it, the mime descriptor of the latest one, whether ws.on('close') ran,
                      \* its responseQueue, the state of its handleTurn loop and the polls that made
    \* budgets
    nUser, nFaults, upCount, capCount, nConn,
    \* observation (history) variables
    notes,            \* the error transitions and error reports of the last handler
    last,             \* the last handler that ran
    sched,            \* every source.start(): [id, start, dur, via, at, queuedAt]
    arrived,          \* the audio frames dispatched to playAudioResponse, in dispatch order
    written,          \* capture frames handed to an open link
    dropped,          \* capture frames pushed while not connected
    failed,           \* capture frames whose write to the link threw
    cancelled,        \* the chunks found queued by an interruption (.interrupt) and by a disconnect (.disconnect)
    recon,            \* recon[s]: what became of socket s's closure
    after,            \* since the latest closure not requested locally: reconnect calls made, and
                      \* whether the user acted (or had a connect pending at the closure)
    endTurns,         \* endTurn frames written to the link since the last start of a recording
    \* PCM codec (audio-utils.ts), exercised on its own
    codec             \* the value a codec function is applied to, and then its result

clientVars == <<connectionState, websocket, sources, sock, toSrv, fetches, nConn, notes>>
captureVars == <<isRecording, audioCtx, procOn>>
playVars == <<ctxState, audioQueue, nextPlayTime, isPlaying, source, resumeWaiters,
              decoding, sched, arrived>>
vars == <<connectionState, websocket, sources, sock, inbox, toSrv, fetches, timer, modelTimer,
          isRecording, audioCtx, procOn, ctxState, currentTime, audioQueue,
          nextPlayTime, isPlaying, source, resumeWaiters, decoding, live,
          nUser, nFaults, upCount, capCount, nConn,
          notes, last, sched, arrived, written, dropped, failed, cancelled, recon, after,
          endTurns, codec>>
\* Everything but the codec's operand.
sessionVars == <<connectionState, websocket, sources, sock, inbox, toSrv, fetches, timer,
                 modelTimer, isRecording, audioCtx, procOn, ctxState, currentTime, audioQueue,
                 nextPlayTime, isPlaying, source, resumeWaiters, decoding, live,
                 nUser, nFaults, upCount, capCount, nConn,
                 notes, last, sched, arrived, written, dropped, failed, cancelled, recon, after,
                 endTurns>>

Max(a, b) == IF a >= b THEN a ELSE b

\* -------------------------------------------------------------- data shapes
Frame(type, id, dur, ok, msg) ==
    [type |-> type, id |-> id, dur |-> dur, ok |-> ok, msg |-> msg]
Ctl(type) == Frame(type, 0, 0, TRUE, "")
ErrFrame(msg) == Frame("error", 0, 0, TRUE, msg)
Note(cb, arg) == [cb |-> cb, arg |-> arg]
NoSource == [id |-> 0, start |-> 0, dur |-> 0]
Ran(h, arg, outcome) == [h |-> h, arg |-> arg, outcome |-> outcome]
\* Steps of the environment and timers leave no record in `last`.
Quiet == Ran("", 0, "")

\* ================================================================ PCM codec
\* Samples are the rationals n / SampleGrid, each of them a float32 value;
\* decoded samples are rationals over DecodeScale.
Unused == [op |-> "none"]

Clamp(n, lo, hi) == Max(lo, IF n <= hi THEN n ELSE hi)

\* The quotient and remainder <<q, r>> of a * b by c, for 0 <= a < c and
\* b >= 0, computed bit by bit of b so that no intermediate value exceeds 3 * c.
RECURSIVE MulDivMod(_, _, _)
MulDivMod(a, b, c) ==
    IF b = 0
    THEN <<0, 0>>
    ELSE LET h == MulDivMod(a, b \div 2, c)
             t == 2 * h[2] + a * (b % 2)
         IN <<2 * h[1] + t \div c, t % c>>

\* The same for any integer a with |a| <= c.
Scaled(a, b, c) ==
    LET h == MulDivMod(a % c, b, c)
    IN <<(a \div c) * b + h[1], h[2]>>

\* Math.round(a * b / c) for c > 0: the nearest integer, halves upwards.
MathRound(a, b, c) ==
    LET h == Scaled(a, 2 * b, 2 * c)
    IN h[1] + (IF h[2] >= c THEN 1 ELSE 0)

\* A store into an Int16Array keeps the low 16 bits, as a signed number.
ToInt16(v) == ((v + 32768) % 65536) - 32768

\* The two bytes of an int16 (little-endian), and the int16 of two bytes.
BytesOf(q) == <<(q % 65536) % 256, (q % 65536) \div 256>>
Int16Of(b) == ToInt16(b[1] + 256 * b[2])

\* encodeAudioData for one sample n / SampleGrid: clamp, scale, round, store;
\* base64 carries the bytes unchanged.
encodeAudioData(n) ==
    LET clamped == Clamp(n, -SampleGrid, SampleGrid)
    IN BytesOf(ToInt16(MathRound(clamped, EncodeScale, SampleGrid)))

\* The sample loop of decodeAudioData for one sample: the numerator of
\* dataInt16[i] / 32768.0, clamped to [-1, 1].
decodeSample(b) == Clamp(Int16Of(b), -DecodeScale, DecodeScale)

\* Variant: every byte is taken for a sample (a Uint8Array view instead of an
\* Int16Array view).
decodeAudioDataBytewise(len, numChannels) ==
    LET expectedSamples == len \div numChannels
    IN IF expectedSamples = 0
       THEN [threw |-> TRUE, frames |-> 0, samples |-> 0]
       ELSE [threw |-> FALSE, frames |-> expectedSamples, samples |-> len]

\* decodeAudioData for `len` bytes and `numChannels` channels: createBuffer
\* throws for a length of zero frames, `new Int16Array(buffer)` for an odd
\* number of bytes; copyToChannel copies no more than the buffer holds.
decodeAudioData(len, numChannels) ==
    LET expectedSamples == (len \div 2) \div numChannels
    IN IF expectedSamples = 0 \/ len % 2 # 0
       THEN [threw |-> TRUE, frames |-> 0, samples |-> 0]
       ELSE [threw |-> FALSE, frames |-> expectedSamples, samples |-> len \div 2]

\* The length of encodeAudioData's result for n samples: btoa of the 2 * n
\* bytes of the Int16Array, as <<characters, of which padding>>.
EncodedLength(n) ==
    LET len == 2 * n
    IN <<4 * ((len + 2) \div 3), (3 - (len % 3)) % 3>>

\* decode: the number of bytes atob yields for a base64 string.
decode(b64) == 3 * (b64[1] \div 4) - b64[2]

\* The mime descriptor that handleServerMessage hands to onAudioReceived.
MimeOf(mimeType) == IF mimeType = "" THEN "audio/pcm;rate=24000" ELSE mimeType

\* parseInt(mimeType.split('rate=')[1]) || 24000
ParseRate(mimeType) ==
    CASE mimeType = "audio/pcm;rate=16000" -> 16000
      [] mimeType = "audio/pcm;rate=24000" -> 24000
      [] mimeType = "audio/pcm;rate=48000" -> 48000
      [] OTHER -> PlaybackRate

\* The rate playAudioResponse passes to customDecodeAudioData.
DecodeRate(mimeType) == PlaybackRate

Mimes == {"", "audio/pcm", "audio/pcm;rate=16000", "audio/pcm;rate=24000",
          "audio/pcm;rate=48000"}
DeclaresRate(mimeType) == mimeType \in {"audio/pcm;rate=16000", "audio/pcm;rate=24000",
                                         "audio/pcm;rate=48000"}

\* What the codec is applied to.
CodecInputs ==
    [op : {"sample"}, x : (-SampleGrid)..SampleGrid]
        \cup [op : {"bytes"}, len : 0..MaxBytes, numChannels : 1..MaxChannels]
        \cup [op : {"frame"}, mimeType : Mimes]
        \cup [op : {"samples"}, n : (0..MaxSamples) \cup {ProcessorFrame},
               rate : {CaptureRate, PlaybackRate}]

\* ========================================================= GeminiLiveClient
\* The client object as a record, so that a handler is a composition of calls.
Client ==
    [connectionState |-> connectionState, websocket |-> websocket,
     sources |-> sources, sock |-> sock, toSrv |-> toSrv, fetches |-> fetches,
     nConn |-> nConn, notes |-> <<>>, threw |-> FALSE]

\* The callbacks that are observed: error reports, transitions into "error"
\* and text.
Observed(n) == n.cb \in {"onError", "setError", "onTextReceived"} \/ n.arg = "error"

SetClient(c) ==
    /\ connectionState' = c.connectionState
    /\ websocket' = c.websocket
    /\ sources' = c.sources
    /\ sock' = c.sock
    /\ toSrv' = c.toSrv
    /\ fetches' = c.fetches
    /\ nConn' = c.nConn
    /\ notes' = SelectSeq(c.notes, Observed)

setConnectionState(c, state) ==
    [c EXCEPT !.connectionState = state,
              !.notes = Append(@, Note("onConnectionStateChange", state))]

onError(c, msg) == [c EXCEPT !.notes = Append(@, Note("onError", msg))]

\* Variant: anything but "disconnected" counts as connected.
isConnectedLoose(c) == c.connectionState # "disconnected"

isConnected(c) == c.connectionState = "connected"

\* WebSocket.close(): a socket still connecting fails (error, then close 1006);
\* an open one starts the closing handshake; otherwise nothing happens.
SocketClose(sk) ==
    CASE sk.st = "connecting" -> [sk EXCEPT !.st = "errored", !.code = 1006, !.local = TRUE]
      [] sk.st = "open" -> [sk EXCEPT !.st = "closing", !.local = TRUE]
      [] OTHER -> sk

\* WebSocket.send(): throws InvalidStateError while CONNECTING, queues the data
\* while OPEN, and discards it silently while CLOSING or CLOSED.
SocketSend(c, m) ==
    LET s == c.websocket
    IN CASE c.sock[s].st = "connecting" -> [c EXCEPT !.threw = TRUE]
         [] c.sock[s].st = "open" -> [c EXCEPT !.toSrv[s] = Append(@, m)]
         [] OTHER -> c

\* disconnect() checks nothing but this.websocket: a connect() suspended at
\* `await fetch` is left as it is (it is marked, for the record, with the
\* number of connect calls made so far).
disconnect(c) ==
    LET c1 == IF c.websocket # 0
              THEN [c EXCEPT !.sock[c.websocket] = SocketClose(@), !.websocket = 0]
              ELSE c
        c2 == [c1 EXCEPT !.sources = {},
                         !.fetches = [i \in 1..Len(@) |-> [@[i] EXCEPT !.cut = c.nConn]]]
    IN setConnectionState(c2, "disconnected")

\* Variant: only a connect() in progress makes another connect() return early.
connectUnlessConnecting(c, cfg, origin, ctx) ==
    IF c.connectionState = "connecting"
    THEN c
    ELSE [setConnectionState(c, "connecting") EXCEPT
              !.fetches = Append(@, [cfg |-> cfg, origin |-> origin, ctx |-> ctx, cut |-> 0]),
              !.nConn = @ + 1]

\* connect() up to its first await.
connect(c, cfg, origin, ctx) ==
    IF c.connectionState \in {"connected", "connecting"}
    THEN c
    ELSE [setConnectionState(c, "connecting") EXCEPT
              !.fetches = Append(@, [cfg |-> cfg, origin |-> origin, ctx |-> ctx, cut |-> 0]),
              !.nConn = @ + 1]

WouldConnect(c) == c.connectionState \notin {"connected", "connecting"}

\* Variant: a failed write also moves the session to "error".
sendAudioFatal(c, f) ==
    IF c.websocket = 0 \/ ~isConnected(c)
    THEN c
    ELSE LET c1 == SocketSend(c, Frame("audio", f, 0, TRUE, "audio/pcm;rate=16000"))
         IN IF c1.threw
            THEN onError(setConnectionState([c1 EXCEPT !.threw = FALSE], "error"),
                         "Failed to send audio")
            ELSE c1

sendAudio(c, f) ==
    IF c.websocket = 0 \/ ~isConnected(c)
    THEN c
    ELSE LET c1 == SocketSend(c, Frame("audio", f, 0, TRUE, "audio/pcm;rate=16000"))
         IN IF c1.threw
            THEN onError([c1 EXCEPT !.threw = FALSE], "Failed to send audio")
            ELSE c1

endTurn(c) ==
    IF c.websocket = 0 \/ ~isConnected(c)
    THEN c
    ELSE LET c1 == SocketSend(c, Ctl("endTurn"))
         IN IF c1.threw
            THEN onError([c1 EXCEPT !.threw = FALSE], "Failed to end turn")
            ELSE c1

\* Variant: a frame of a type without a case of its own is treated as an error.
handleServerMessageStrict(c, m) ==
    CASE m.type = "connected" -> setConnectionState(c, "connected")
      [] m.type = "text" /\ m.msg # "" ->
             [c EXCEPT !.notes = Append(@, Note("onTextReceived", m.msg))]
      [] m.type = "error" -> onError(setConnectionState(c, "error"), m.msg)
      [] m.type \in {"audio", "text"} -> c
      [] OTHER -> onError(setConnectionState(c, "error"), "Unknown server message type")

\* Variant: the text case lacks its `break` and falls through to the error case.
handleServerMessageFallThrough(c, m) ==
    CASE m.type = "connected" -> setConnectionState(c, "connected")
      [] m.type = "text" /\ m.msg # "" ->
             onError(setConnectionState(
                         [c EXCEPT !.notes = Append(@, Note("onTextReceived", m.msg))],
                         "error"), "")
      [] m.type = "error" -> onError(setConnectionState(c, "error"), m.msg)
      [] OTHER -> c

\* handleServerMessage, without the audio branch's callee (playAudioResponse);
\* a text frame without text invokes no callback.
handleServerMessage(c, m) ==
    CASE m.type = "connected" -> setConnectionState(c, "connected")
      [] m.type = "text" /\ m.msg # "" ->
             [c EXCEPT !.notes = Append(@, Note("onTextReceived", m.msg))]
      [] m.type = "error" -> onError(setConnectionState(c, "error"), m.msg)
      [] OTHER -> c

\* ====================================================== LiveAudio: playback
\* The playback refs as a record.
Player ==
    [ctxState |-> ctxState, audioQueue |-> audioQueue, nextPlayTime |-> nextPlayTime,
     isPlaying |-> isPlaying, source |-> source, resumeWaiters |-> resumeWaiters,
     sched |-> sched, arrived |-> arrived]

SetPlayer(p) ==
    /\ ctxState' = p.ctxState
    /\ audioQueue' = p.audioQueue
    /\ nextPlayTime' = p.nextPlayTime
    /\ isPlaying' = p.isPlaying
    /\ source' = p.source
    /\ resumeWaiters' = p.resumeWaiters
    /\ sched' = p.sched
    /\ arrived' = p.arrived

\* Variant: every chunk is started at the clock reading at which it is pumped,
\* whether or not a source is still sounding and wherever the cursor is.
playNextInQueueNaive(p, now, via) ==
    IF p.ctxState = "none" \/ p.audioQueue = <<>>
    THEN p
    ELSE LET buffer == Head(p.audioQueue)
         IN [p EXCEPT !.audioQueue = Tail(@),
                      !.isPlaying = TRUE,
                      !.source = [id |-> buffer.id, start |-> now, dur |-> buffer.dur],
                      !.nextPlayTime = now + buffer.dur,
                      !.sched = Append(@, [id |-> buffer.id, start |-> now,
                                           dur |-> buffer.dur, via |-> via, at |-> now,
                                           queuedAt |-> buffer.at])]

\* Variant: the newest chunk of the queue is taken (pop instead of shift).
playNextInQueuePop(p, now, via) ==
    IF p.ctxState = "none" \/ p.audioQueue = <<>> \/ p.isPlaying
    THEN p
    ELSE LET buffer == p.audioQueue[Len(p.audioQueue)]
             startTime == Max(now, p.nextPlayTime)
         IN [p EXCEPT !.audioQueue = SubSeq(@, 1, Len(@) - 1),
                      !.isPlaying = TRUE,
                      !.source = [id |-> buffer.id, start |-> startTime, dur |-> buffer.dur],
                      !.nextPlayTime = startTime + buffer.dur,
                      !.sched = Append(@, [id |-> buffer.id, start |-> startTime,
                                           dur |-> buffer.dur, via |-> via, at |-> now,
                                           queuedAt |-> buffer.at])]

\* Variant: a chunk is started at the cursor, wherever the clock is.
playNextInQueueAtCursor(p, now, via) ==
    IF p.ctxState = "none" \/ p.audioQueue = <<>> \/ p.isPlaying
    THEN p
    ELSE LET buffer == Head(p.audioQueue)
             startTime == p.nextPlayTime
         IN [p EXCEPT !.audioQueue = Tail(@),
                      !.isPlaying = TRUE,
                      !.source = [id |-> buffer.id, start |-> startTime, dur |-> buffer.dur],
                      !.nextPlayTime = startTime + buffer.dur,
                      !.sched = Append(@, [id |-> buffer.id, start |-> startTime,
                                           dur |-> buffer.dur, via |-> via, at |-> now,
                                           queuedAt |-> buffer.at])]

\* playNextInQueue, called at clock reading `now` from `via`.
playNextInQueue(p, now, via) ==
    IF p.ctxState = "none" \/ p.audioQueue = <<>> \/ p.isPlaying
    THEN p
    ELSE LET buffer == Head(p.audioQueue)
             startTime == Max(now, p.nextPlayTime)
         IN [p EXCEPT !.audioQueue = Tail(@),
                      !.isPlaying = TRUE,
                      !.source = [id |-> buffer.id, start |-> startTime, dur |-> buffer.dur],
                      !.nextPlayTime = startTime + buffer.dur,
                      !.sched = Append(@, [id |-> buffer.id, start |-> startTime,
                                           dur |-> buffer.dur, via |-> via, at |-> now,
                                           queuedAt |-> buffer.at])]

\* Variant: the cursor is set to the clock for every frame, not only when the
\* playback context is created.
playAudioResponseBeginReset(p, now, st, m) ==
    LET p1 == [p EXCEPT !.arrived = Append(@, [id |-> m.id, ok |-> m.ok])]
    IN IF p1.ctxState = "none"
       THEN [p1 EXCEPT !.ctxState = st, !.nextPlayTime = now]
       ELSE [p1 EXCEPT !.nextPlayTime = now]

\* playAudioResponse up to `await customDecodeAudioData`: creates the playback
\* context on first use; `st` is the state the browser creates it in.
playAudioResponseBegin(p, now, st, m) ==
    LET p1 == [p EXCEPT !.arrived = Append(@, [id |-> m.id, ok |-> m.ok])]
    IN IF p1.ctxState = "none"
       THEN [p1 EXCEPT !.ctxState = st, !.nextPlayTime = now]
       ELSE p1

\* playAudioResponse after a successful decode of frame m.
playAudioResponseQueued(p, now, m) ==
    LET p1 == [p EXCEPT !.audioQueue = Append(@, [id |-> m.id, dur |-> m.dur, at |-> now])]
    IN IF p1.ctxState = "suspended"
       THEN [p1 EXCEPT !.resumeWaiters = @ + 1]
       ELSE playNextInQueue(p1, now, "enqueue")

\* Variant: the ended callback clears the flag but does not pump.
onendedNoPump(p, now) == [p EXCEPT !.isPlaying = FALSE, !.source = NoSource]

\* source.onended
onended(p, now) ==
    playNextInQueue([p EXCEPT !.isPlaying = FALSE, !.source = NoSource], now, "ended")

\* ------------------------------------------------------------------ helpers
\* The chunks waiting in the playback queue.
QueuedIds == {audioQueue[i].id : i \in 1..Len(audioQueue)}

\* Tasks run only at a microtask checkpoint.
Checkpoint == decoding = <<>>

NumSockets == Cardinality({s \in Sockets : sock[s].st # "free"})

\* ws.send on the relay: frames for a socket that is no longer open are lost.
ServerSend(s, frames) ==
    IF sock[s].st \in {"open", "closing"}
    THEN [inbox EXCEPT ![s] = @ \o frames]
    ELSE inbox

\* The number of messages of type `type` that the handler which produced the
\* client state c has written to the link.
Written(c, type) ==
    IF websocket = 0
    THEN 0
    ELSE Len(SelectSeq(SubSeq(c.toSrv[websocket], Len(toSrv[websocket]) + 1,
                              Len(c.toSrv[websocket])),
                       LAMBDA m : m.type = type))

\* A button press; `explicitDisconnect` says whether it calls disconnect().
\* It is recorded for the closures whose reconnect timeout is still pending.
UserActed(explicitDisconnect) ==
    /\ recon' = [s \in Sockets |->
                    IF recon[s].closed # "no" /\ ~recon[s].fired
                    THEN [recon[s] EXCEPT !.discAfter = @ \/ explicitDisconnect]
                    ELSE recon[s]]
    /\ after' = [after EXCEPT !.user = TRUE]

\* The reconnect timeout is due.
TimerDue(left) == left = 0

\* The page after mounting: a new GeminiLiveClient, nothing recorded or played.
Mounted ==
    /\ connectionState = "disconnected"
    /\ websocket = 0
    /\ sources = {}
    /\ sock = [s \in Sockets |-> [st |-> "free", cfg |-> "", code |-> 0, local |-> FALSE,
                                auto |-> FALSE, cut |-> 0]]
    /\ inbox = [s \in Sockets |-> <<>>]
    /\ toSrv = [s \in Sockets |-> <<>>]
    /\ fetches = <<>>
    /\ timer = [s \in Sockets |-> -1]
    /\ modelTimer = -1
    /\ isRecording = FALSE
    /\ audioCtx = 0
    /\ procOn = FALSE
    /\ ctxState = "none"
    /\ currentTime = 0
    /\ audioQueue = <<>>
    /\ nextPlayTime = 0
    /\ isPlaying = FALSE
    /\ source = NoSource
    /\ resumeWaiters = 0
    /\ decoding = <<>>
    /\ live = [s \in Sockets |-> [sess |-> FALSE, up |-> "none", awaiting |-> FALSE, fed |-> 0,
                                mime |-> "", wsClosed |-> FALSE,
                                responseQueue |-> <<>>, turn |-> "none", polls |-> 0]]
    /\ nUser = 0
    /\ nFaults = 0
    /\ upCount = 0
    /\ capCount = 0
    /\ nConn = 0
    /\ notes = <<>>
    /\ last = Quiet
    /\ sched = <<>>
    /\ arrived = <<>>
    /\ written = {}
    /\ dropped = {}
    /\ failed = {}
    /\ cancelled = [interrupt |-> {}, disconnect |-> {}]
    /\ recon = [s \in Sockets |-> [closed |-> "no", fired |-> FALSE, calls |-> 0,
                                   firedLeft |-> 0, discAfter |-> FALSE]]
    /\ after = [abnormal |-> FALSE, user |-> FALSE, calls |-> 0]
    /\ endTurns = 0

Init ==
    /\ Mounted
    /\ codec = Unused

\* ================================================= LiveAudio: button handlers
\* The control panel is disabled while connectionState is "connecting", and
\* offers Start only while not recording.
ButtonsEnabled == Checkpoint /\ connectionState # "connecting" /\ nUser < MaxUser

\* handleStartRecording, with the microphone granted.
handleStartRecording ==
    /\ ButtonsEnabled
    /\ ~isRecording
    /\ WouldConnect(Client) => nConn <= MaxSockets
    /\ UserActed(FALSE)
    /\ nUser' = nUser + 1
    /\ isRecording' = TRUE
    /\ audioCtx' = nUser + 1
    /\ procOn' = ~WouldConnect(Client)
    /\ SetClient(connect(Client, "default", "start", nUser + 1))
    /\ endTurns' = 0
    /\ last' = Quiet
    /\ UNCHANGED <<codec, inbox, timer, modelTimer, playVars, currentTime, live, nFaults, upCount, capCount,
                   written, dropped, failed, cancelled>>

\* handleStopRecording as a step of a handler.
StopRecording(c) == IF isConnected(c) THEN endTurn(c) ELSE c

handleStopRecording ==
    /\ ButtonsEnabled
    /\ isRecording
    /\ nUser' = nUser + 1
    /\ UserActed(FALSE)
    /\ isRecording' = FALSE
    /\ audioCtx' = 0
    /\ procOn' = FALSE
    /\ SetClient(StopRecording(Client))
    /\ endTurns' = endTurns + Written(StopRecording(Client), "endTurn")
    /\ last' = Quiet
    /\ UNCHANGED <<codec, inbox, timer, modelTimer, playVars, currentTime, live, nFaults, upCount, capCount,
                   written, dropped, failed, cancelled>>

\* handleReset; the button is offered while not recording.
handleReset ==
    /\ ButtonsEnabled
    /\ ~isRecording
    /\ nUser' = nUser + 1
    /\ UserActed(TRUE)
    /\ isRecording' = FALSE
    /\ audioCtx' = 0
    /\ procOn' = FALSE
    /\ SetClient(disconnect(StopRecording(Client)))
    /\ endTurns' = endTurns + Written(StopRecording(Client), "endTurn")
    /\ last' = Ran("handleReset", 0, "")
    /\ cancelled' = [cancelled EXCEPT !.disconnect = @ \cup QueuedIds]
    /\ UNCHANGED <<codec, inbox, timer, modelTimer, playVars, currentTime, live, nFaults, upCount,
                   capCount, written, dropped, failed>>

\* The cleanup of the page's effect when the page is unmounted: it calls
\* client.disconnect(); no button is pressed afterwards.
Unmount ==
    /\ Checkpoint
    /\ nUser < MaxUser
    /\ nUser' = MaxUser
    /\ UserActed(TRUE)
    /\ SetClient(disconnect(Client))
    /\ last' = Ran("cleanup", 0, "")
    /\ UNCHANGED <<codec, endTurns, inbox, timer, modelTimer, captureVars, playVars, currentTime, live,
                   nFaults, upCount, capCount, written, dropped, failed, cancelled>>

\* handleModelChange while connected (otherwise it only records the choice):
\* disconnect, and connect with the chosen model half a second later.
handleModelChange ==
    /\ Checkpoint
    /\ nUser < MaxUser
    /\ connectionState = "connected"
    /\ modelTimer = -1
    /\ nUser' = nUser + 1
    /\ UserActed(TRUE)
    /\ SetClient(disconnect(Client))
    /\ modelTimer' = ModelChangeDelay
    /\ last' = Ran("handleModelChange", 0, "")
    /\ cancelled' = [cancelled EXCEPT !.disconnect = @ \cup QueuedIds]
    /\ UNCHANGED <<codec, endTurns, inbox, timer, captureVars, playVars, currentTime, live, nFaults, upCount,
                   capCount, written, dropped, failed>>

\* The timeout callback that handleModelChange registered.
ModelChangeTimer ==
    /\ Checkpoint
    /\ modelTimer >= 0
    /\ TimerDue(modelTimer)
    /\ WouldConnect(Client) => nConn <= MaxSockets
    /\ modelTimer' = -1
    /\ SetClient(connect(Client, "model", "model", 0))
    /\ last' = Quiet
    /\ UNCHANGED <<codec, endTurns, inbox, timer, captureVars, playVars, currentTime, live, nUser, nFaults,
                   upCount, capCount, written, dropped, failed, cancelled, recon, after>>

\* processor.onaudioprocess for one captured frame.
onaudioprocess ==
    /\ Checkpoint
    /\ audioCtx # 0 /\ procOn
    /\ capCount < MaxCapture
    /\ LET f == capCount + 1
           c1 == IF isConnected(Client) THEN sendAudio(Client, f) ELSE Client
           sent == c1.toSrv # toSrv
       IN /\ SetClient(c1)
          /\ capCount' = f
          /\ written' = IF sent THEN written \cup {f} ELSE written
          /\ dropped' = IF connectionState # "connected" THEN dropped \cup {f} ELSE dropped
          /\ failed' = IF c1.notes # <<>> THEN failed \cup {f} ELSE failed
          /\ last' = Ran("onaudioprocess", f,
                         CASE sent -> "sent"
                           [] c1.notes # <<>> -> "failed"
                           [] connectionState # "connected" -> "dropped"
                           [] OTHER -> "discarded")
    /\ UNCHANGED <<codec, endTurns, inbox, timer, modelTimer, captureVars, playVars, currentTime, live, nUser, nFaults,
                   upCount, cancelled, recon, after>>

\* ============================================ GeminiLiveClient: async handlers
\* The continuation of connect() after `await fetch(...)` for the i-th pending
\* call; `ok` says whether the API key was obtained.
FetchDone(i, ok) ==
    /\ Checkpoint
    /\ i \in 1..Len(fetches)
    /\ LET rec == fetches[i]
           rest == [j \in 1..(Len(fetches) - 1) |-> IF j < i THEN fetches[j] ELSE fetches[j + 1]]
           c0 == [Client EXCEPT !.fetches = rest]
           s == NumSockets + 1
       IN IF ok
          THEN /\ NumSockets < MaxSockets
               /\ SetClient([c0 EXCEPT !.websocket = s,
                                       !.sock[s] = [st |-> "connecting", cfg |-> rec.cfg,
                                                    code |-> 0, local |-> FALSE,
                                                    auto |-> (rec.origin = "timer"),
                                                    cut |-> rec.cut]])
               /\ procOn' = (procOn \/ (rec.origin = "start" /\ audioCtx # 0 /\ rec.ctx = audioCtx))
               /\ last' = Quiet
               /\ UNCHANGED nFaults
          ELSE /\ nFaults < MaxFaults
               /\ nFaults' = nFaults + 1
               /\ LET c1 == onError(setConnectionState(c0, "error"), "Connection failed")
                  IN SetClient(CASE rec.origin = "timer" -> onError(c1, "Failed to reconnect")
                                 [] rec.origin = "start" ->
                                      [c1 EXCEPT !.notes = Append(@, Note("setError", "Failed to start recording"))]
                                 [] OTHER -> c1)
               /\ last' = Quiet
               /\ UNCHANGED procOn
    /\ UNCHANGED <<codec, endTurns, inbox, timer, modelTimer, isRecording, audioCtx, playVars, currentTime, live, nUser,
                   upCount, capCount, written, dropped, failed, cancelled, recon, after>>

\* websocket.onopen of socket s.
onopen(s) ==
    /\ Checkpoint
    /\ sock[s].st = "connecting"
    /\ LET c0 == [Client EXCEPT !.sock[s].st = "open"]
           c1 == IF c0.websocket # 0
                 THEN SocketSend(c0, Frame("setup", 0, 0, TRUE, sock[s].cfg))
                 ELSE c0
       IN /\ SetClient([c1 EXCEPT !.threw = FALSE])
          /\ last' = Quiet
    /\ UNCHANGED <<codec, endTurns, inbox, timer, modelTimer, captureVars, playVars, currentTime, live, nUser, nFaults,
                   upCount, capCount, written, dropped, failed, cancelled, recon, after>>

\* websocket.onmessage of socket s, up to the first await of the handler chain.
onmessage(s, st) ==
    /\ Checkpoint
    /\ sock[s].st \in {"open", "closing"}
    /\ inbox[s] # <<>>
    /\ LET m == Head(inbox[s])
       IN /\ inbox' = [inbox EXCEPT ![s] = Tail(@)]
          /\ SetClient(handleServerMessage(Client, m))
          /\ last' = IF m.type = "interrupted" THEN Ran("onmessage", s, m.type) ELSE Quiet
          /\ IF m.type = "audio"
             THEN /\ SetPlayer(playAudioResponseBegin(Player, currentTime, st, m))
                  /\ decoding' = <<m>>
             ELSE /\ st = "running"
                  /\ UNCHANGED playVars
          /\ cancelled' = IF m.type = "interrupted"
                          THEN [cancelled EXCEPT !.interrupt = @ \cup QueuedIds]
                          ELSE cancelled
    /\ UNCHANGED <<codec, endTurns, timer, modelTimer, captureVars, currentTime, live, nUser, nFaults, upCount, capCount,
                   written, dropped, failed, recon, after>>

\* The continuation of playAudioResponse after `await customDecodeAudioData`.
playAudioResponse ==
    /\ decoding # <<>>
    /\ LET m == Head(decoding)
       IN /\ decoding' = Tail(decoding)
          /\ IF m.ok
             THEN /\ SetPlayer(playAudioResponseQueued(Player, currentTime, m))
                  /\ SetClient(Client)
                  /\ last' = Quiet
             ELSE /\ SetPlayer(Player)
                  /\ SetClient([Client EXCEPT !.notes = <<Note("setError", "Playback error")>>])
                  /\ last' = Quiet
    /\ UNCHANGED <<codec, endTurns, inbox, timer, modelTimer, captureVars, currentTime, live, nUser, nFaults, upCount,
                   capCount, written, dropped, failed, cancelled, recon, after>>

\* The continuation of playAudioResponse after `await resume()`.
resumed ==
    /\ Checkpoint
    /\ resumeWaiters > 0
    /\ SetPlayer(playNextInQueue([Player EXCEPT !.ctxState = "running",
                                                !.resumeWaiters = @ - 1],
                                 currentTime, "resume"))
    /\ SetClient(Client)
    /\ last' = Quiet
    /\ UNCHANGED <<codec, endTurns, inbox, timer, modelTimer, captureVars, currentTime, decoding, live, nUser, nFaults,
                   upCount, capCount, written, dropped, failed, cancelled, recon, after>>

\* source.onended of the started source: fires once the clock has reached its end.
SourceEnded ==
    /\ Checkpoint
    /\ source # NoSource
    /\ ctxState = "running"
    /\ currentTime >= source.start + source.dur
    /\ SetPlayer(onended(Player, currentTime))
    /\ SetClient(Client)
    /\ last' = Quiet
    /\ UNCHANGED <<codec, endTurns, inbox, timer, modelTimer, captureVars, currentTime, decoding, live, nUser, nFaults,
                   upCount, capCount, written, dropped, failed, cancelled, recon, after>>

\* The playback clock advances while the context runs.
TickAudio ==
    /\ Checkpoint
    /\ ctxState = "running"
    /\ currentTime < MaxClock
    /\ currentTime' = currentTime + 1
    /\ SetClient(Client)
    /\ last' = Quiet
    /\ UNCHANGED <<codec, endTurns, inbox, timer, modelTimer, captureVars, playVars, live, nUser, nFaults, upCount,
                   capCount, written, dropped, failed, cancelled, recon, after>>

\* The playback clock runs on to the end of the started source (time does not
\* stop at MaxClock while a source sounds).
TickToEnd ==
    /\ Checkpoint
    /\ ctxState = "running"
    /\ source # NoSource
    /\ currentTime >= MaxClock
    /\ currentTime < source.start + source.dur
    /\ currentTime' = source.start + source.dur
    /\ SetClient(Client)
    /\ last' = Quiet
    /\ UNCHANGED <<codec, endTurns, inbox, timer, modelTimer, captureVars, playVars, live, nUser, nFaults, upCount,
                   capCount, written, dropped, failed, cancelled, recon, after>>

\* websocket.onerror
onerror(c) == onError(setConnectionState(c, "error"), "Connection error")

\* The close code the browser reports: 1005 after a closing handshake that
\* the page started with close() (no code given), else the recorded one.
CloseCode(sk) == IF sk.st = "closing" THEN 1005 ELSE sk.code

\* Whether onclose treats the closure as a dropped connection.
Dropped(code) == code \notin NormalCodes

\* websocket.onclose with close code `code`, up to the setTimeout call.
onclose(c, code) ==
    LET c1 == setConnectionState(c, "disconnected")
    IN IF Dropped(code) THEN disconnect(c1) ELSE c1

\* The task the browser queues when the connection of socket s has ended: the
\* socket becomes CLOSED, a failed connection fires `error`, then `close` is
\* fired; frames still in flight are lost.
SocketClosed(s) ==
    /\ Checkpoint
    /\ sock[s].st \in {"closing", "closeq", "errored"}
    /\ LET code == CloseCode(sock[s])
           c0 == [Client EXCEPT !.sock[s].st = "closed", !.sock[s].code = code]
           c1 == IF sock[s].st = "errored" THEN onerror(c0) ELSE c0
       IN /\ SetClient(onclose(c1, code))
          /\ timer' = [timer EXCEPT ![s] = IF Dropped(code) THEN ReconnectDelay ELSE @]
          /\ recon' = [recon EXCEPT ![s].closed =
                          CASE sock[s].local -> "local"
                            [] code \in NormalCodes -> "normal"
                            [] OTHER -> "abnormal"]
          /\ after' = IF ~sock[s].local /\ code \notin NormalCodes
                      THEN [abnormal |-> TRUE, calls |-> 0,
                            user |-> (modelTimer >= 0 \/ fetches # <<>>)]
                      ELSE after
          /\ last' = Quiet
    /\ inbox' = [inbox EXCEPT ![s] = <<>>]
    /\ UNCHANGED <<codec, endTurns, modelTimer, captureVars, playVars, currentTime, live, nUser, nFaults, upCount,
                   capCount, written, dropped, failed, cancelled>>

\* The timeout callback that s.onclose registered.
ReconnectTimer(s) ==
    /\ Checkpoint
    /\ timer[s] >= 0
    /\ TimerDue(timer[s])
    /\ connectionState = "disconnected" => nConn <= MaxSockets
    /\ timer' = [timer EXCEPT ![s] = -1]
    /\ IF connectionState = "disconnected"
       THEN /\ SetClient(connect(Client, sock[s].cfg, "timer", 0))
            /\ recon' = [recon EXCEPT ![s].fired = TRUE, ![s].calls = @ + 1,
                                      ![s].firedLeft = timer[s]]
            /\ after' = [after EXCEPT !.calls = @ + 1]
            /\ last' = Quiet
       ELSE /\ SetClient(Client)
            /\ recon' = [recon EXCEPT ![s].fired = TRUE, ![s].firedLeft = timer[s]]
            /\ UNCHANGED after
            /\ last' = Quiet
    /\ UNCHANGED <<codec, endTurns, inbox, modelTimer, captureVars, playVars, currentTime, live, nUser, nFaults, upCount,
                   capCount, written, dropped, failed, cancelled>>

\* Half a second of wall-clock time passes for the pending timeouts; a timeout
\* that is due runs before more time passes.
TickTimers ==
    /\ Checkpoint
    /\ modelTimer > 0 \/ \E s \in Sockets : timer[s] > 0
    /\ ~TimerDue(modelTimer) /\ \A s \in Sockets : ~TimerDue(timer[s])
    /\ timer' = [s \in Sockets |-> IF timer[s] > 0 THEN timer[s] - 1 ELSE timer[s]]
    /\ modelTimer' = IF modelTimer > 0 THEN modelTimer - 1 ELSE modelTimer
    /\ SetClient(Client)
    /\ last' = Quiet
    /\ UNCHANGED <<codec, endTurns, inbox, captureVars, playVars, currentTime, live, nUser, nFaults, upCount,
                   capCount, written, dropped, failed, cancelled, recon, after>>

\* ------------------------------------------------------------- the network
\* The connection of socket s fails (handshake refused, link lost).
NetFail(s) ==
    /\ Checkpoint
    /\ sock[s].st \in {"connecting", "open", "closing"}
    /\ nFaults < MaxFaults
    /\ nFaults' = nFaults + 1
    /\ SetClient([Client EXCEPT !.sock[s].st = "errored", !.sock[s].code = 1006])
    /\ last' = Quiet
    /\ UNCHANGED <<codec, endTurns, inbox, timer, modelTimer, captureVars, playVars, currentTime, live, nUser, upCount,
                   capCount, written, dropped, failed, cancelled, recon, after>>

\* The peer closes socket s with a normal status (server shutting down).
NetClose(s, code) ==
    /\ Checkpoint
    /\ sock[s].st = "open"
    /\ nFaults < MaxFaults
    /\ nFaults' = nFaults + 1
    /\ SetClient([Client EXCEPT !.sock[s].st = "closeq", !.sock[s].code = code])
    /\ last' = Quiet
    /\ UNCHANGED <<codec, endTurns, inbox, timer, modelTimer, captureVars, playVars, currentTime, live, nUser, upCount,
                   capCount, written, dropped, failed, cancelled, recon, after>>

\* The handshake of a socket that a reconnect timeout opened fails as well:
\* the relay is still unreachable.
ReconnectRefused(s) ==
    /\ Checkpoint
    /\ sock[s].st = "connecting"
    /\ sock[s].auto
    /\ SetClient([Client EXCEPT !.sock[s].st = "errored", !.sock[s].code = 1006])
    /\ last' = Quiet
    /\ UNCHANGED <<codec, endTurns, inbox, timer, modelTimer, captureVars, playVars, currentTime, live, nUser,
                   nFaults, upCount, capCount, written, dropped, failed, cancelled, recon, after>>

\* A message that no handler of this client sends arrives on connection s:
\* one of a type the relay has no case for, or one that is not JSON.
ForeignMessage(s, type) ==
    /\ Checkpoint
    /\ sock[s].st = "open"
    /\ nFaults < MaxFaults
    /\ nFaults' = nFaults + 1
    /\ SetClient([Client EXCEPT !.toSrv[s] = Append(@, Ctl(type))])
    /\ last' = Quiet
    /\ UNCHANGED <<codec, endTurns, inbox, timer, modelTimer, captureVars, playVars, currentTime,
                   live, nUser, upCount, capCount, written, dropped, failed, cancelled, recon, after>>

\* =================================================================== relay
\* The relay's steps for connection s are followed until the browser has
\* reported the closure of s: from then on no frame of s reaches the client.
Attached(s) == sock[s].st # "closed"

\* Variant: one liveSession and one socket shared by all connections (state
\* kept at module level instead of in the connection handler's closure).
ConnShared(s) == 1

\* The connection whose closure (ws, liveSession) a callback registered for
\* connection s uses: its own.
Conn(s) == s

RelayStep(s, frames, lv) ==
    /\ inbox' = ServerSend(Conn(s), frames)
    /\ live' = [live EXCEPT ![s] = lv]
    /\ SetClient(Client)
    /\ last' = Quiet

\* Variant: an endTurn that the remote side does not need is answered with an
\* error frame.
RelayReplyStrict(m, lv) ==
    CASE m.type = "malformed" -> <<ErrFrame("Invalid message format")>>
      [] m.type = "audio" /\ lv.sess /\ m.msg # "" /\ lv.up = "open" -> <<>>
      [] m.type = "audio" /\ lv.sess /\ m.msg # "" -> <<ErrFrame("Failed to send audio")>>
      [] m.type = "audio" -> <<ErrFrame("Invalid audio message format from client")>>
      [] m.type = "endTurn" -> <<ErrFrame("Failed to end turn")>>
      [] OTHER -> <<>>

\* The frames ws.on('message') sends back for message m, the connection's
\* session being lv: JSON.parse throws for a malformed message; audio without
\* a usable session or without a mime descriptor is answered with an error;
\* endTurn and unknown types are only logged.
RelayReply(m, lv) ==
    CASE m.type = "malformed" -> <<ErrFrame("Invalid message format")>>
      [] m.type = "audio" /\ lv.sess /\ m.msg # "" /\ lv.up = "open" -> <<>>
      [] m.type = "audio" /\ lv.sess /\ m.msg # "" -> <<ErrFrame("Failed to send audio")>>
      [] m.type = "audio" -> <<ErrFrame("Invalid audio message format from client")>>
      [] OTHER -> <<>>

\* What ws.on('message') does to the connection's session: setup starts
\* live.connect, audio that carries a mime descriptor is handed to the open
\* session with that descriptor.
RelaySession(m, lv) ==
    CASE m.type = "setup" -> [lv EXCEPT !.up = "pending", !.awaiting = TRUE]
      [] m.type = "audio" /\ lv.sess /\ m.msg # "" /\ lv.up = "open" ->
             [lv EXCEPT !.fed = @ + 1, !.mime = m.msg]
      [] OTHER -> lv

\* Variant: the relay handles the newest message in flight first.
RelayOnMessageNewestFirst(s) ==
    /\ Checkpoint
    /\ Attached(s)
    /\ toSrv[s] # <<>>
    /\ LET m == toSrv[s][Len(toSrv[s])]
           lv == live[Conn(s)]
       IN /\ inbox' = ServerSend(Conn(s), RelayReply(m, lv))
          /\ live' = [live EXCEPT ![Conn(s)] = RelaySession(m, lv)]
          /\ SetClient([Client EXCEPT !.toSrv[s] = SubSeq(@, 1, Len(@) - 1)])
          /\ last' = Quiet
    /\ UNCHANGED <<codec, endTurns, timer, modelTimer, captureVars, playVars, currentTime, nUser, nFaults, upCount,
                   capCount, written, dropped, failed, cancelled, recon, after>>

\* ws.on('message') for the next message of connection s.
RelayOnMessage(s) ==
    /\ Checkpoint
    /\ Attached(s)
    /\ toSrv[s] # <<>>
    /\ LET m == Head(toSrv[s])
           lv == live[Conn(s)]
       IN /\ inbox' = ServerSend(Conn(s), RelayReply(m, lv))
          /\ live' = [live EXCEPT ![Conn(s)] = RelaySession(m, lv)]
          /\ SetClient([Client EXCEPT !.toSrv[s] = Tail(@)])
          /\ last' = Quiet
    /\ UNCHANGED <<codec, endTurns, timer, modelTimer, captureVars, playVars, currentTime, nUser, nFaults, upCount,
                   capCount, written, dropped, failed, cancelled, recon, after>>

\* Variant: the setup is acknowledged as soon as the upstream connection
\* opens, before live.connect has returned the session.
LiveOnOpenAck(s) ==
    /\ Checkpoint
    /\ Attached(s)
    /\ live[s].up = "pending"
    /\ RelayStep(s, <<Ctl("debug"), Ctl("connected")>>, [live[s] EXCEPT !.up = "open"])
    /\ UNCHANGED <<codec, endTurns, timer, modelTimer, captureVars, playVars, currentTime, nUser, nFaults, upCount,
                   capCount, written, dropped, failed, cancelled, recon, after>>

\* callbacks.onopen of the live session of connection s.
LiveOnOpen(s) ==
    /\ Checkpoint
    /\ Attached(s)
    /\ live[s].up = "pending"
    /\ RelayStep(s, <<Ctl("debug")>>, [live[s] EXCEPT !.up = "open"])
    /\ UNCHANGED <<codec, endTurns, timer, modelTimer, captureVars, playVars, currentTime, nUser, nFaults, upCount,
                   capCount, written, dropped, failed, cancelled, recon, after>>

\* `await genAI.live.connect(...)` returns: the session is kept, handleTurn is
\* started, 'connected' is sent.
RelaySetupDone(s) ==
    /\ Checkpoint
    /\ Attached(s)
    /\ live[s].awaiting
    /\ live[s].up \in {"open", "closed"}
    /\ RelayStep(s, <<Ctl("connected")>>,
                 [live[s] EXCEPT !.sess = TRUE, !.awaiting = FALSE, !.turn = "polling"])
    /\ UNCHANGED <<codec, endTurns, timer, modelTimer, captureVars, playVars, currentTime, nUser, nFaults, upCount,
                   capCount, written, dropped, failed, cancelled, recon, after>>

\* `await genAI.live.connect(...)` throws: both catch blocks report it.
RelaySetupFail(s) ==
    /\ Checkpoint
    /\ Attached(s)
    /\ live[s].awaiting
    /\ live[s].up = "pending"
    /\ nFaults < MaxFaults
    /\ nFaults' = nFaults + 1
    /\ RelayStep(s, <<ErrFrame("Live API Connection Failed"),
                      ErrFrame("Failed to connect to Gemini Live API")>>,
                 [live[s] EXCEPT !.up = "none", !.awaiting = FALSE])
    /\ UNCHANGED <<codec, endTurns, timer, modelTimer, captureVars, playVars, currentTime, nUser, upCount, capCount,
                   written, dropped, failed, cancelled, recon, after>>

\* What one upstream message makes the relay send: parts[0]'s audio, its text,
\* then 'interrupted'; nothing for a message that only carries turnComplete or
\* generationComplete.
UpstreamKinds == {"audio", "badaudio", "text", "interrupted"}

\* The mime descriptor of parts[0].inlineData in an upstream message of an
\* audio kind; it may lack the rate or be missing.
MimeKinds == {"audio:rate", "audio:norate", "audio:untagged"}
UpstreamMime(kind) ==
    CASE kind = "audio:untagged" -> ""
      [] kind = "audio:norate" -> "audio/pcm"
      [] OTHER -> "audio/pcm;rate=24000"

\* The text of parts[0] in an upstream message of a text kind; it may be empty.
TextKinds == {"text", "text:u", "text:"}
TextOf(kind) ==
    CASE kind = "text" -> "t"
      [] kind = "text:u" -> "u"
      [] OTHER -> ""

\* The parts of modelTurn.parts in an upstream message of a kind with several
\* parts (an audio part and a text part, in either order); a message of any
\* other kind has the one part that the kind names.
PartsKinds == {"audio,text", "text,audio"}
Parts(kind) ==
    CASE kind = "audio,text" -> <<"audio", "text">>
      [] kind = "text,audio" -> <<"text", "audio">>
      [] OTHER -> <<kind>>

\* Variant: inline data is forwarded whether or not it has a mime descriptor
\* (the test of handleModelTurn).
LiveFramesUntagged(kind, id, dur) ==
    LET part == Parts(kind)[1]
    IN CASE part = "audio" \/ part \in MimeKinds -> <<Frame("audio", id, dur, TRUE, UpstreamMime(part))>>
         [] part = "badaudio" -> <<Frame("audio", id, dur, FALSE, "audio/pcm;rate=24000")>>
         [] part \in TextKinds /\ TextOf(part) # "" -> <<Frame("text", id, 0, TRUE, TextOf(part))>>
         [] part \in TextKinds -> <<>>
         [] part = "turnComplete" -> <<>>
         [] OTHER -> <<Ctl("interrupted")>>

\* callbacks.onmessage looks at modelTurn.parts[0] only.
LiveFrames(kind, id, dur) ==
    LET part == Parts(kind)[1]
    IN CASE (part = "audio" \/ part \in MimeKinds) /\ UpstreamMime(part) # "" ->
                <<Frame("audio", id, dur, TRUE, UpstreamMime(part))>>
         [] part \in MimeKinds -> <<>>
         [] part = "badaudio" -> <<Frame("audio", id, dur, FALSE, "audio/pcm;rate=24000")>>
         [] part \in TextKinds /\ TextOf(part) # "" -> <<Frame("text", id, 0, TRUE, TextOf(part))>>
         [] part \in TextKinds -> <<>>
         [] part = "turnComplete" -> <<>>
         [] OTHER -> <<Ctl("interrupted")>>

\* The upstream messages whose delivery is recorded in `last`.
RecordedKinds == {"turnComplete"} \cup MimeKinds \cup PartsKinds

\* callbacks.onmessage of the live session of connection s.
LiveOnMessage(s, kind, dur) ==
    /\ Checkpoint
    /\ Attached(s)
    /\ live[s].up = "open"
    /\ upCount < MaxUp
    /\ kind \notin ({"audio", "badaudio"} \cup MimeKinds \cup PartsKinds) => dur = 1
    /\ upCount' = upCount + 1
    /\ inbox' = ServerSend(Conn(s), LiveFrames(kind, upCount + 1, dur))
    /\ live' = live
    /\ SetClient(Client)
    /\ last' = IF kind \in RecordedKinds THEN Ran("LiveOnMessage", s, kind) ELSE Quiet
    /\ UNCHANGED <<codec, endTurns, timer, modelTimer, captureVars, playVars, currentTime, nUser, nFaults, capCount,
                   written, dropped, failed, cancelled, recon, after>>

\* callbacks.onerror of the live session: reported, and the session is closed.
LiveOnError(s) ==
    /\ Checkpoint
    /\ Attached(s)
    /\ live[s].up = "open"
    /\ nFaults < MaxFaults
    /\ nFaults' = nFaults + 1
    /\ RelayStep(s, <<ErrFrame("Live API Error")>>,
                 [live[s] EXCEPT !.up = IF live[s].sess THEN "closing" ELSE @])
    /\ UNCHANGED <<codec, endTurns, timer, modelTimer, captureVars, playVars, currentTime, nUser, upCount, capCount,
                   written, dropped, failed, cancelled, recon, after>>

\* callbacks.onclose of the live session.
LiveOnClose(s) ==
    /\ Checkpoint
    /\ Attached(s)
    /\ live[s].up \in {"open", "closing"}
    /\ RelayStep(s, <<ErrFrame("Connection closed")>>, [live[s] EXCEPT !.up = "closed"])
    /\ UNCHANGED <<codec, endTurns, timer, modelTimer, captureVars, playVars, currentTime, nUser, nFaults, upCount, capCount,
                   written, dropped, failed, cancelled, recon, after>>

\* handleModelTurn for the message at the head of the queue: parts[0]'s inline
\* data and text.
handleModelTurn(message) ==
    (IF message.audio THEN <<Frame("audio", message.id, 1, TRUE, message.mime)>> ELSE <<>>)
        \o (IF message.text # "" THEN <<Frame("text", message.id, 0, TRUE, message.text)>> ELSE <<>>)

\* One iteration of waitMessage's loop inside handleTurn, run by the 100 ms
\* timeout: the head of responseQueue is handled, and ends the loop if it
\* completes the turn; on an empty queue the loop sleeps again.  The loop
\* tests neither the socket nor the session.
waitMessage(s) ==
    /\ Checkpoint
    /\ live[s].turn = "polling"
    /\ live[s].polls < MaxPolls
    /\ IF live[s].responseQueue # <<>>
       THEN LET message == Head(live[s].responseQueue)
            IN RelayStep(s, handleModelTurn(message),
                         [live[s] EXCEPT !.responseQueue = Tail(@),
                                         !.polls = @ + 1,
                                         !.turn = IF message.turnComplete THEN "done" ELSE @])
       ELSE RelayStep(s, <<>>, [live[s] EXCEPT !.polls = @ + 1])
    /\ UNCHANGED <<codec, endTurns, timer, modelTimer, captureVars, playVars, currentTime, nUser, nFaults, upCount,
                   capCount, written, dropped, failed, cancelled, recon, after>>

\* ws.on('close') of connection s, once the connection has ended: the session
\* is closed if live.connect has returned it, otherwise nothing is done.
RelayOnClose(s) ==
    /\ Checkpoint
    /\ ~Attached(s)
    /\ ~live[s].wsClosed
    /\ RelayStep(s, <<>>, [live[s] EXCEPT !.wsClosed = TRUE,
                                          !.up = IF live[s].sess /\ @ = "open" THEN "closed" ELSE @])
    /\ UNCHANGED <<codec, endTurns, timer, modelTimer, captureVars, playVars, currentTime, nUser, nFaults, upCount,
                   capCount, written, dropped, failed, cancelled, recon, after>>

\* callbacks.onopen of the live session of a connection that has ended: the
\* debug frame is lost.
LiveOnOpenDetached(s) ==
    /\ Checkpoint
    /\ ~Attached(s)
    /\ live[s].up = "pending"
    /\ RelayStep(s, <<Ctl("debug")>>, [live[s] EXCEPT !.up = "open"])
    /\ UNCHANGED <<codec, endTurns, timer, modelTimer, captureVars, playVars, currentTime, nUser, nFaults, upCount,
                   capCount, written, dropped, failed, cancelled, recon, after>>

\* `await genAI.live.connect(...)` returns for a connection that has ended:
\* the session is kept, handleTurn is started, the 'connected' frame is lost.
RelaySetupDoneDetached(s) ==
    /\ Checkpoint
    /\ ~Attached(s)
    /\ live[s].awaiting
    /\ live[s].up \in {"open", "closed"}
    /\ RelayStep(s, <<Ctl("connected")>>,
                 [live[s] EXCEPT !.sess = TRUE, !.awaiting = FALSE, !.turn = "polling"])
    /\ UNCHANGED <<codec, endTurns, timer, modelTimer, captureVars, playVars, currentTime, nUser, nFaults, upCount,
                   capCount, written, dropped, failed, cancelled, recon, after>>

\* ============================================================ codec steps
\* encodeAudioData applied to the sample.
EncodeSample ==
    /\ codec.op = "sample"
    /\ codec' = [op |-> "encoded", x |-> codec.x, bytes |-> encodeAudioData(codec.x)]
    /\ UNCHANGED sessionVars

\* decodeAudioData applied to the encoded sample.
DecodeSample ==
    /\ codec.op = "encoded"
    /\ codec' = [op |-> "decoded", x |-> codec.x, y |-> decodeSample(codec.bytes)]
    /\ UNCHANGED sessionVars

\* decodeAudioData applied to a byte string of the given length.
DecodeBytes ==
    /\ codec.op = "bytes"
    /\ codec' = [op |-> "buffer", len |-> codec.len, numChannels |-> codec.numChannels,
                 result |-> decodeAudioData(codec.len, codec.numChannels)]
    /\ UNCHANGED sessionVars

\* An audio frame with the given descriptor goes through handleServerMessage
\* and playAudioResponse up to the decoder call.
DecodeFrame ==
    /\ codec.op = "frame"
    /\ codec' = [op |-> "chunk", mimeType |-> codec.mimeType,
                 sampleRate |-> ParseRate(MimeOf(codec.mimeType)),
                 rate |-> DecodeRate(MimeOf(codec.mimeType))]
    /\ UNCHANGED sessionVars

\* encodeAudioData applied to a frame of n samples.
EncodeSamples ==
    /\ codec.op = "samples"
    /\ codec' = [op |-> "base64", n |-> codec.n, rate |-> codec.rate,
                 b64 |-> EncodedLength(codec.n)]
    /\ UNCHANGED sessionVars

\* decodeAudioData applied to the encoded frame, for one channel at the given
\* rate: the buffer's length and sampleRate are those createBuffer was given.
DecodeEncoded ==
    /\ codec.op = "base64"
    /\ LET result == decodeAudioData(decode(codec.b64), 1)
       IN codec' = [op |-> "audioBuffer", n |-> codec.n, rate |-> codec.rate,
                    threw |-> result.threw, length |-> result.frames,
                    sampleRate |-> codec.rate]
    /\ UNCHANGED sessionVars

CodecStep ==
    \/ EncodeSample
    \/ DecodeSample
    \/ DecodeBytes
    \/ DecodeFrame
    \/ EncodeSamples
    \/ DecodeEncoded

\* ============================================================ specification
\* The buttons, the capture processor and the client's connection handlers.
SessionStep ==
    \/ handleStartRecording
    \/ handleStopRecording
    \/ handleReset
    \/ \E s \in Sockets : ReconnectTimer(s)
    \/ TickTimers
    \/ \E i \in 1..Len(fetches) : FetchDone(i, TRUE)
    \/ \E s \in Sockets : onopen(s)
    \/ \E s \in Sockets, st \in {"running", "suspended"} : onmessage(s, st)
    \/ \E s \in Sockets : SocketClosed(s)
    \/ \E s \in Sockets : RelayOnMessage(s)
    \/ \E s \in Sockets : LiveOnOpen(s)
    \/ \E s \in Sockets : RelaySetupDone(s)

\* The handlers of a session in which the user only presses Start.
ConnectStep ==
    \/ handleStartRecording
    \/ \E i \in 1..Len(fetches) : FetchDone(i, TRUE)
    \/ \E s \in Sockets : onopen(s)
    \/ \E s \in Sockets, st \in {"running", "suspended"} : onmessage(s, st)
    \/ \E s \in Sockets : RelayOnMessage(s)
    \/ \E s \in Sockets : LiveOnOpen(s)
    \/ \E s \in Sockets : RelaySetupDone(s)

\* Model audio and its playback.
PlaybackStep ==
    \/ \E s \in Sockets, kind \in UpstreamKinds, dur \in Durations : LiveOnMessage(s, kind, dur)
    \/ playAudioResponse
    \/ resumed
    \/ SourceEnded
    \/ TickAudio

\* Switching the model during a session.
SwitchStep ==
    \/ handleModelChange
    \/ ModelChangeTimer

\* Capture and failures.
LinkStep ==
    \/ onaudioprocess
    \/ \E i \in 1..Len(fetches) : FetchDone(i, FALSE)
    \/ \E s \in Sockets : NetFail(s)
    \/ \E s \in Sockets, code \in NormalCodes : NetClose(s, code)
    \/ \E s \in Sockets : RelaySetupFail(s)
    \/ \E s \in Sockets : LiveOnError(s)
    \/ \E s \in Sockets : LiveOnClose(s)

\* The microphone alone.
CaptureStep == onaudioprocess

\* Messages the relay does not expect.
ForeignTypes == {"ping", "malformed"}
UnknownStep == \E s \in Sockets : ForeignMessage(s, "ping")
AnomalyStep == \E s \in Sockets, type \in ForeignTypes : ForeignMessage(s, type)

\* An audio message without a mime descriptor arrives at the relay.
UntaggedStep == \E s \in Sockets : ForeignMessage(s, "audio")

\* Upstream messages of the given kinds, with chunks of one second.
Upstream(kinds) == \E s \in Sockets, kind \in kinds : LiveOnMessage(s, kind, 1)

\* The page's playback handlers.
PlayerStep ==
    \/ playAudioResponse
    \/ resumed
    \/ SourceEnded
    \/ TickAudio

\* The link is lost, and the relay stays unreachable for the reconnection.
OutageStep ==
    \/ \E s \in Sockets : NetFail(s)
    \/ \E s \in Sockets : ReconnectRefused(s)

\* The relay's handlers for a connection whose client socket has closed.
DetachedStep ==
    \/ \E s \in Sockets : RelayOnClose(s)
    \/ \E s \in Sockets : LiveOnOpenDetached(s)
    \/ \E s \in Sockets : RelaySetupDoneDetached(s)

\* The response loops of the relay.
PollStep == \E s \in Sockets : waitMessage(s)

\* The upstream session of a connection ends.
UpstreamCloseStep == \E s \in Sockets : LiveOnClose(s)

Next == SessionStep \/ SwitchStep \/ PlaybackStep \/ LinkStep \/ AnomalyStep
NextProto == SessionStep \/ UnknownStep \/ Upstream({"audio", "interrupted"}) \/ PlayerStep
NextAnomaly ==
    SessionStep \/ AnomalyStep \/ CaptureStep \/ Upstream({"badaudio"}) \/ playAudioResponse
NextTurn == SessionStep \/ CaptureStep \/ Upstream({"audio"}) \/ PlayerStep
NextRelay ==
    SessionStep \/ SwitchStep \/ CaptureStep \/ Upstream({"text"}) \/ UpstreamCloseStep
NextDone == SessionStep \/ Upstream({"audio", "turnComplete"}) \/ PlayerStep
NextRetry == SessionStep \/ OutageStep
NextText == SessionStep \/ SwitchStep \/ Upstream(TextKinds) \/ UpstreamCloseStep
NextMime == SessionStep \/ CaptureStep \/ UntaggedStep \/ Upstream(MimeKinds) \/ playAudioResponse
NextPump ==
    \/ ConnectStep
    \/ \E s \in Sockets, dur \in Durations : LiveOnMessage(s, "audio", dur)
    \/ PlayerStep
    \/ TickToEnd
NextCancel == SessionStep \/ Unmount
NextClose == SessionStep \/ Unmount \/ DetachedStep
NextParts == SessionStep \/ Upstream(PartsKinds) \/ playAudioResponse
NextOrder ==
    SessionStep \/ CaptureStep \/ Upstream({"audio", "text"}) \/ playAudioResponse
NextPoll == SessionStep \/ Unmount \/ DetachedStep \/ Upstream({"turnComplete"}) \/ PollStep
NextPlay == SessionStep \/ PlaybackStep
NextLink == SessionStep \/ SwitchStep \/ LinkStep

\* The codec applied to every sample, byte-string length and descriptor.
InitCodec ==
    /\ Mounted
    /\ codec \in CodecInputs
SpecCodec == InitCodec /\ [][CodecStep]_vars

\* The session with a reliable link, interruptible model audio and messages
\* of unknown type at the relay.
SpecProto == Init /\ [][NextProto]_vars
\* The session with undecodable model audio and foreign messages at the relay.
SpecAnomaly == Init /\ [][NextAnomaly]_vars
\* The session with a reliable link, the microphone and the model's audio.
SpecTurn == Init /\ [][NextTurn]_vars
\* The session with a reliable link and a model whose turns end of themselves.
SpecDone == Init /\ [][NextDone]_vars
\* The session with a link that is lost and a relay that stays unreachable.
SpecRetry == Init /\ [][NextRetry]_vars
\* The session with model switches, a model that answers in text and upstream
\* sessions that end.
SpecText == Init /\ [][NextText]_vars
\* The session with the microphone, audio without a descriptor at the relay
\* and model audio with and without a descriptor.
SpecMime == Init /\ [][NextMime]_vars
\* The session with a reliable link and the model's audio, in which the user
\* only presses Start, every continuation of an await runs, the playback clock keeps running while a
\* source sounds and every started source fires its ended callback.
SpecPump ==
    /\ Init
    /\ [][NextPump]_vars
    /\ WF_vars(playAudioResponse)
    /\ WF_vars(resumed)
    /\ WF_vars(TickAudio)
    /\ WF_vars(TickToEnd)
    /\ WF_vars(SourceEnded)
\* The session with a reliable link and a silent model, in which the user may
\* leave the page.
SpecCancel == Init /\ [][NextCancel]_vars
\* The same session, with the relay's handlers for connections that have ended.
SpecClose == Init /\ [][NextClose]_vars
\* The same, with the relay's response loops and a model whose turns end.
SpecPoll == Init /\ [][NextPoll]_vars
\* The session with a reliable link, the microphone and a model that answers
\* in audio and text.
SpecOrder == Init /\ [][NextOrder]_vars
\* The session with a reliable link and a model whose messages have an audio
\* part and a text part.
SpecParts == Init /\ [][NextParts]_vars
\* Two relay sessions: the microphone, model switches, a model that answers
\* in text and upstream sessions that end.
SpecRelay == Init /\ [][NextRelay]_vars

\* The whole system.
Spec == Init /\ [][Next]_vars
\* The session with a reliable link: playback of the model's audio.
SpecPlay == Init /\ [][NextPlay]_vars
\* The session with an unreliable link, model switches and a silent model:
\* connection lifecycle and capture.
SpecLink == Init /\ [][NextLink]_vars

\* ===================================================================== claims
\* The step just taken dispatched an 'interrupted' frame to handleServerMessage.
InterruptedDispatched == last'.h = "onmessage" /\ last'.outcome = "interrupted"

\* A source.start() of the step just taken starts a chunk of the set `ids`.
Starts(ids) ==
    /\ Len(sched') > Len(sched)
    /\ sched'[Len(sched')].id \in ids

\* C1: when 'interrupted' is dispatched while chunks are queued or a source is
\* sounding, the queue is emptied, the source is stopped and the cursor is
\* reset to the clock; and no chunk queued before it is started afterwards.
C1_InterruptionFlushesPlayback ==
    [][/\ (InterruptedDispatched /\ (audioQueue # <<>> \/ source # NoSource))
          => (audioQueue' = <<>> /\ source' = NoSource /\ nextPlayTime' = currentTime')
       /\ ~Starts(cancelled.interrupt)]_vars

\* C2: consecutive scheduled chunks never overlap:
\* start(i+1) >= start(i) + d(i).
C2_NoOverlap ==
    \A i \in 1..(Len(sched) - 1) : sched[i + 1].start >= sched[i].start + sched[i].dur

\* C2 witness: a second chunk was scheduled while its predecessor's end still
\* lay ahead of or at the clock, after the clock had moved.
C2_Witness ==
    /\ Len(sched) >= 2
    /\ sched[2].at > 0
    /\ sched[2].start = sched[1].start + sched[1].dur

\* C3: a chunk that was already queued before its predecessor's end starts
\* exactly at the predecessor's end.
C3_GaplessWhenQueued ==
    \A i \in 1..(Len(sched) - 1) :
        sched[i + 1].queuedAt < sched[i].start + sched[i].dur
            => sched[i + 1].start = sched[i].start + sched[i].dur

\* The chunks scheduled so far, and the well-formed frames in dispatch order.
ScheduledIds == [i \in 1..Len(sched) |-> sched[i].id]
IsWellFormed(a) == a.ok
ArrivedIds ==
    LET good == SelectSeq(arrived, IsWellFormed)
    IN [i \in 1..Len(good) |-> good[i].id]

\* C4: chunks are scheduled strictly in the order their frames were
\* dispatched at the client.
C4_FifoPlayback ==
    /\ Len(ScheduledIds) <= Len(ArrivedIds)
    /\ ScheduledIds = SubSeq(ArrivedIds, 1, Len(ScheduledIds))

\* C4 witness: two chunks waited in the queue together and both were scheduled.
C4_Witness ==
    /\ Len(sched) >= 2
    /\ sched[2].queuedAt <= sched[1].at
    /\ sched[1].via = "resume"

\* The step just taken ran a handler that calls GeminiLiveClient.disconnect.
DisconnectRequested == last'.h \in {"handleReset", "handleModelChange"}

\* C5: after an explicit disconnect the queue is empty and no source remains
\* scheduled or sounding; no chunk received before it starts afterwards.
C5_DisconnectCancelsPlayback ==
    [][/\ DisconnectRequested => (audioQueue' = <<>> /\ source' = NoSource)
       /\ ~Starts(cancelled.disconnect)]_vars

\* No reconnect timeout is pending.
TimersDone == \A s \in Sockets : timer[s] = -1

\* C6: after an abnormal closure followed by no user action, the reconnect
\* timeouts invoke connect exactly once, and only once the delay has elapsed.
C6_OneReconnectAfterDelay ==
    /\ (after.abnormal /\ ~after.user) => after.calls <= 1
    /\ (after.abnormal /\ ~after.user /\ TimersDone) => after.calls = 1
    /\ \A s \in Sockets : recon[s].fired => recon[s].firedLeft = 0

\* C7: an explicit disconnect between an abnormal closure and the expiry of
\* the delay keeps the timeout from invoking connect; and a closure requested
\* by the local side never schedules a reconnection.
C7_DisconnectPreventsReconnect ==
    \A s \in Sockets :
        /\ (recon[s].closed = "abnormal" /\ recon[s].discAfter) => recon[s].calls = 0
        /\ recon[s].closed = "local" => (timer[s] = -1 /\ ~recon[s].fired)

\* What the last handler told the UI collaborator.
IsErrorTransition(n) == n = Note("onConnectionStateChange", "error")
IsErrorReport(n) == n.cb = "onError"

\* C8: a handler that moves connectionState into "error" invokes onError
\* exactly once per transition.
C8_OneReportPerErrorTransition ==
    Len(SelectSeq(notes, IsErrorTransition)) > 0
        => Len(SelectSeq(notes, IsErrorReport)) = Len(SelectSeq(notes, IsErrorTransition))

\* C9: a frame pushed while connectionState is not "connected" is not written
\* to the link, then or later.
C9_DroppedNeverWritten ==
    /\ dropped \cap written = {}
    /\ \A s \in Sockets : \A i \in 1..Len(toSrv[s]) :
           toSrv[s][i].type = "audio" => toSrv[s][i].id \notin dropped

\* C9 witness: a frame was dropped, the session connected afterwards, and a
\* later frame was written while the dropped one was not.
C9_Witness ==
    /\ connectionState = "connected"
    /\ 1 \in dropped
    /\ written = {2}

\* The step just taken pushed a frame whose write to the link threw.
WriteFailed == last'.h = "onaudioprocess" /\ last'.outcome = "failed"

\* The step just taken pushed a frame on a healthy link.
PushedOnHealthyLink ==
    /\ last'.h = "onaudioprocess"
    /\ connectionState = "connected"
    /\ websocket # 0
    /\ sock[websocket].st = "open"

\* C10: a failed write is reported through onError and leaves connectionState
\* and the turn state as they were; a push on a healthy link is sent, also
\* after a failure.
C10_WriteFailureIsRecoverable ==
    [][/\ WriteFailed => /\ notes' = <<Note("onError", "Failed to send audio")>>
                         /\ connectionState' = connectionState
                         /\ isRecording' = isRecording
       /\ PushedOnHealthyLink => last'.outcome = "sent"]_vars

\* C10 witness: the write of frame 1 failed and frame 2 was written.
C10_Witness == failed = {1} /\ written = {2}

\* C11: every audio frame that declares a sample rate is decoded at that rate.
C11_DecodedAtDeclaredRate ==
    (codec.op = "chunk" /\ DeclaresRate(codec.mimeType))
        => codec.rate = ParseRate(codec.mimeType)

\* The step just taken dispatched the next frame of socket s to the client's
\* onmessage handler.
Dispatched(s) ==
    /\ inbox[s] # <<>>
    /\ inbox'[s] = Tail(inbox[s])
    /\ sock'[s].st = sock[s].st

\* The step just taken handed the next message of connection s to the relay's
\* message handler.
Received(s) ==
    /\ toSrv[s] # <<>>
    /\ toSrv'[s] = Tail(toSrv[s])

KnownFrames == {"connected", "audio", "text", "error"}
KnownMessages == {"setup", "audio", "text", "endTurn", "malformed"}

\* C12: dispatching a frame of an unrecognized type leaves connectionState,
\* the playback queue and the cursor unchanged and reports no error; so does an
\* unrecognized client message at the relay, which also sends nothing back.
C12_UnknownTypeIgnored ==
    [][/\ \A s \in Sockets :
              (Dispatched(s) /\ Head(inbox[s]).type \notin KnownFrames)
                  => /\ connectionState' = connectionState
                     /\ audioQueue' = audioQueue
                     /\ nextPlayTime' = nextPlayTime
                     /\ notes' = <<>>
       /\ \A s \in Sockets :
              (Received(s) /\ Head(toSrv[s]).type \notin KnownMessages)
                  => /\ live' = live
                     /\ inbox' = inbox
                     /\ connectionState' = connectionState
                     /\ notes' = <<>>]_vars

\* C12 witness: the relay has consumed a message of unknown type, the client
\* has dispatched 'interrupted' while a chunk was queued, and that chunk was
\* scheduled afterwards in a session still connected.
C12_Witness ==
    /\ nFaults = 1
    /\ \A s \in Sockets : toSrv[s] = <<>>
    /\ connectionState = "connected"
    /\ sched # <<>>
    /\ sched[Len(sched)].id \in cancelled.interrupt

\* C13: dispatching an error frame sets connectionState to "error", reports
\* the frame's message through onError, and leaves a reconnection scheduled.
C13_ErrorFrameSchedulesReconnect ==
    [][\A s \in Sockets :
           (Dispatched(s) /\ Head(inbox[s]).type = "error")
               => /\ connectionState' = "error"
                  /\ \E i \in 1..Len(notes') : notes'[i] = Note("onError", Head(inbox[s]).msg)
                  /\ \E t \in Sockets : timer'[t] >= 0]_vars

\* C14: at most one endTurn frame is written to the link per user turn.
C14_OneEndTurnPerTurn == endTurns <= 1

\* C15: for every sample in [-1, 1], decoding the encoded sample yields a
\* value within 1 / 32768 of it:  |y / DecodeScale - x / SampleGrid| <= 1 / 32768.
\* With x * DecodeScale / SampleGrid = q + r / SampleGrid this is
\* y - 1 <= q + r / SampleGrid <= y + 1.
C15_RoundTripWithinOneStep ==
    codec.op = "decoded"
        => LET h == Scaled(codec.x, DecodeScale, SampleGrid)
           IN /\ h[1] >= codec.y - 1
              /\ h[1] < codec.y + 1 \/ (h[1] = codec.y + 1 /\ h[2] = 0)

\* C16: decoding a byte string whose length is not a multiple of
\* 2 * channelCount fails, for every channel count.
C16_TruncatedFrameFails ==
    (codec.op = "buffer" /\ codec.len % (2 * codec.numChannels) # 0)
        => codec.result.threw

\* The relay state of connection s grew or changed in the step just taken.
RelayChanged(s) == live'[s] # live[s] \/ Len(inbox'[s]) > Len(inbox[s])

\* C17: audio is handed to a connection's upstream session only from a message
\* of that connection; a frame of an upstream session reaches only a socket
\* whose session is open; and no step changes the relay state of two
\* connections.
C17_SessionsIsolated ==
    [][/\ \A s \in Sockets :
              live'[s].fed > live[s].fed => (Received(s) /\ Head(toSrv[s]).type = "audio")
       /\ \A s \in Sockets :
              (upCount' > upCount /\ Len(inbox'[s]) > Len(inbox[s])) => live[s].up = "open"
       /\ \A s, t \in Sockets :
              (s # t /\ RelayChanged(s)) => (live'[t] = live[t] /\ inbox'[t] = inbox[t])]_vars

\* C17 witness: two connections with a session each are attached to the relay
\* at once, the second one's session has been handed audio, and the first
\* one's session has ended.
C17_Witness ==
    /\ sock[1].st \in {"open", "closing"}
    /\ sock[2].st = "open"
    /\ live[1].sess /\ live[2].sess
    /\ live[1].up = "closed"
    /\ live[2].up = "open"
    /\ live[2].fed >= 1

\* The step just taken forwarded a captured frame to the relay.
Forwarded == last'.h = "onaudioprocess" /\ last'.outcome = "sent"

\* A chunk of the model's audio is sounding.
ModelSpeaking ==
    /\ source # NoSource
    /\ ctxState = "running"
    /\ source.start <= currentTime
    /\ currentTime < source.start + source.dur

\* C18: a captured frame is forwarded only while the user holds the turn (or
\* a response is awaited), never while the turn is idle or the model speaks.
C18_ForwardOnlyInUserTurn ==
    [][Forwarded => (isRecording /\ ~ModelSpeaking)]_vars

\* The step just taken ran the catch block of playAudioResponse.
DecodeFailed ==
    /\ decoding # <<>>
    /\ ~Head(decoding).ok
    /\ decoding' = Tail(decoding)

\* The error frames with which the relay answers an unexpected or malformed
\* client message.
ProtocolErrors == {"Invalid message format", "Invalid audio message format from client"}

\* C19: neither a failed decode of an audio frame nor the relay's answer to an
\* unexpected or malformed message changes the client's connectionState.
C19_AnomaliesKeepConnectionState ==
    [][/\ DecodeFailed => connectionState' = connectionState
       /\ \A s \in Sockets :
              (Dispatched(s) /\ Head(inbox[s]).type = "error"
                            /\ Head(inbox[s]).msg \in ProtocolErrors)
                  => connectionState' = connectionState]_vars

\* C20: a frame of the upstream session is forwarded to the connection's
\* socket whatever the client has sent, and an endTurn message at the relay
\* changes no session, sends nothing back and reports no error.
C20_NoLocalEndTurnNeeded ==
    [][/\ upCount' > upCount
              => \E s \in Sockets :
                     /\ live[s].up = "open"
                     /\ sock[s].st \in {"open", "closing"} => Len(inbox'[s]) = Len(inbox[s]) + 1
       /\ \A s \in Sockets :
              (Received(s) /\ Head(toSrv[s]).type = "endTurn")
                  => /\ live' = live
                     /\ inbox' = inbox
                     /\ connectionState' = connectionState
                     /\ notes' = <<>>]_vars

\* C20 witness: a chunk of the model's audio has been scheduled in a session
\* in which only Start was pressed, so that no endTurn was ever sent.
C20_Witness ==
    /\ nUser = 1
    /\ isRecording
    /\ sched # <<>>

\* The step just taken delivered the upstream session's turn-complete signal
\* to the relay.
TurnCompleteSignalled == last'.h = "LiveOnMessage" /\ last'.outcome = "turnComplete"

\* C21: a turn-complete signal of the remote service while the model speaks
\* reaches the client: the relay sends a frame for it on the connection.
C21_CompletionReachesClient ==
    [][(TurnCompleteSignalled /\ ModelSpeaking)
           => \E s \in Sockets : Len(inbox'[s]) > Len(inbox[s])]_vars

\* C22: the reconnect timeout of a socket that a reconnect timeout itself had
\* opened makes no connect call, unless the user has acted since that socket's
\* closure.
C22_NoRetryAfterFailedReconnect ==
    [][\A s \in Sockets :
           (recon'[s].calls > recon[s].calls /\ sock[s].auto) => after.user]_vars

\* C23: connectionState becomes "connected" only in the step that dispatches a
\* 'connected' frame; a 'connected' frame is in flight on a connection only
\* once the relay holds that connection's upstream session; hence the relay
\* session that acknowledged holds an upstream session when the client becomes
\* connected.
C23_ConnectedOnlyAfterUpstream ==
    [][/\ (connectionState' = "connected" /\ connectionState # "connected")
              => \E s \in Sockets : /\ Dispatched(s)
                                    /\ Head(inbox[s]).type = "connected"
                                    /\ live[s].sess
       /\ \A s \in Sockets : \A i \in 1..Len(inbox'[s]) :
              inbox'[s][i].type = "connected" => live'[s].sess]_vars

\* C23 witness: the client is connected through its second socket, whose
\* relay session holds an open upstream session.
C23_Witness ==
    /\ connectionState = "connected"
    /\ websocket = 2
    /\ inbox[2] = <<>>
    /\ live[2].sess
    /\ live[2].up = "open"

\* The text callbacks of the handler that ran last.
IsText(n) == n.cb = "onTextReceived"

\* C24: the step that dispatches a text frame invokes the text callback once,
\* with the frame's string and nothing else; no other step invokes it. The
\* frames of a socket are dispatched first in, first out.
C24_TextOncePerFrame ==
    [][/\ \A s \in Sockets :
              (Dispatched(s) /\ Head(inbox[s]).type = "text")
                  => notes' = <<Note("onTextReceived", Head(inbox[s]).msg)>>
       /\ SelectSeq(notes', IsText) # <<>>
              => \E s \in Sockets : Dispatched(s) /\ Head(inbox[s]).type = "text"]_vars

\* C24 witness: three upstream messages with text parts "t", "" and "u" have
\* all been handled, and the callback has just been invoked with "u".
C24_Witness ==
    /\ upCount = 3
    /\ \A s \in Sockets : inbox[s] = <<>>
    /\ notes = <<Note("onTextReceived", "u")>>

\* The step just taken delivered an upstream audio message to the relay.
UpstreamAudio == last'.h = "LiveOnMessage" /\ last'.outcome \in MimeKinds

\* C25: a frame the client writes is tagged 'audio/pcm;rate=16000'; the relay
\* hands an audio message to the upstream session only if it carries a mime
\* descriptor, and with that descriptor; it forwards upstream audio only if
\* it carries a mime descriptor, and with that descriptor; so no audio frame
\* in flight to the client is without one.
C25_AudioCarriesDescriptor ==
    [][/\ \A s \in Sockets :
              (Forwarded /\ Len(toSrv'[s]) > Len(toSrv[s]))
                  => toSrv'[s][Len(toSrv'[s])].msg = "audio/pcm;rate=16000"
       /\ \A s \in Sockets :
              live'[s].fed > live[s].fed
                  => (Head(toSrv[s]).msg # "" /\ live'[s].mime = Head(toSrv[s]).msg)
       /\ UpstreamAudio
              => LET s == last'.arg
                     mime == UpstreamMime(last'.outcome)
                 IN IF mime = "" \/ sock[s].st \notin {"open", "closing"}
                    THEN inbox' = inbox
                    ELSE /\ Len(inbox'[s]) = Len(inbox[s]) + 1
                         /\ inbox'[s][Len(inbox'[s])].type = "audio"
                         /\ inbox'[s][Len(inbox'[s])].msg = mime
       /\ \A s \in Sockets : \A i \in 1..Len(inbox'[s]) :
              inbox'[s][i].type = "audio" => inbox'[s][i].msg # ""]_vars

\* C25 witness: the relay has handed a captured frame to the upstream session,
\* has answered an audio message without descriptor with an error, and has
\* dropped or forwarded the model's audio.
C25_Witness ==
    /\ \E s \in Sockets : live[s].fed >= 1 /\ live[s].mime = "audio/pcm;rate=16000"
    /\ nFaults = 1
    /\ \A s \in Sockets : toSrv[s] = <<>>
    /\ upCount >= 2
    /\ arrived # <<>>

\* C26: no step decreases the playback cursor.
C26_CursorNeverDecreases == [][nextPlayTime' >= nextPlayTime]_vars

\* C26 witness: two chunks were scheduled, the second one after the clock had
\* passed the cursor, and the session was then reset.
C26_Witness ==
    /\ Len(sched) >= 2
    /\ sched[2].at > sched[1].start + sched[1].dur
    /\ nextPlayTime = sched[2].start + sched[2].dur
    /\ last.h = "handleReset"

\* C27: the playing flag is set exactly while a started source awaits its
\* ended callback, and a source is started only while none is outstanding or
\* by the ended callback of the one that was; a step starts at most one.
C27_OneSourceOutstanding ==
    [][/\ isPlaying' <=> (source' # NoSource)
       /\ Len(sched') > Len(sched)
              => /\ Len(sched') = Len(sched) + 1
                 /\ \/ ~isPlaying /\ source = NoSource
                    \/ /\ sched'[Len(sched')].via = "ended"
                       /\ currentTime >= source.start + source.dur]_vars

\* C27 witness: a chunk waits in the queue while its predecessor's source is
\* outstanding.
C27_Witness ==
    /\ isPlaying
    /\ source # NoSource
    /\ audioQueue # <<>>
    /\ currentTime < source.start + source.dur

\* C28: decoding the encoding of a mono frame of n >= 1 samples yields a
\* buffer of exactly n samples, whose duration length / sampleRate is n
\* divided by the rate it is decoded at; 4096 samples at 16 kHz last 0.256 s.
C28_DecodedLengthIsEncodedLength ==
    (codec.op = "audioBuffer" /\ codec.n >= 1)
        => /\ ~codec.threw
           /\ codec.length = codec.n
           /\ codec.length * codec.rate = codec.n * codec.sampleRate
           /\ (codec.n = ProcessorFrame /\ codec.rate = CaptureRate)
                  => 1000 * codec.length = 256 * codec.sampleRate

\* C28 witness: the processor's frame of 4096 samples has been encoded and
\* decoded at 16 kHz.
C28_Witness ==
    /\ codec.op = "audioBuffer"
    /\ codec.n = ProcessorFrame
    /\ codec.rate = CaptureRate
    /\ codec.length = ProcessorFrame

\* The step just taken is the continuation of playAudioResponse after a
\* successful decode.
Enqueued ==
    /\ decoding # <<>>
    /\ Head(decoding).ok
    /\ decoding' = Tail(decoding)

\* The step just taken ran the ended callback of the started source.
Ended == source # NoSource /\ source' # source

StartedIds == {sched[j].id : j \in 1..Len(sched)}

\* C29: an enqueue while idle starts the chunk in the same step; a pump on an
\* empty queue leaves the scheduler idle; the playing flag is never set with
\* no source outstanding; and every chunk placed in the queue is eventually
\* started.
C29_QueuedEventuallyStarted ==
    /\ [][/\ (Enqueued /\ ctxState = "running" /\ ~isPlaying)
                 => (Starts({Head(decoding).id}) /\ isPlaying')
          /\ (Ended /\ audioQueue = <<>>) => (~isPlaying' /\ source' = NoSource)]_vars
    /\ [](isPlaying => source # NoSource)
    /\ \A i \in 1..(MaxUp + 1) : (i \in QueuedIds) ~> (i \in StartedIds)

\* C29 witness: the scheduler went idle on an empty queue and the next
\* enqueue started playback again.
C29_Witness ==
    /\ Len(sched) >= 2
    /\ sched[2].via = "enqueue"
    /\ sched[2].at > sched[1].start + sched[1].dur
    /\ isPlaying

\* C30: a chunk is started at the maximum of the cursor and the clock read
\* when it is scheduled, hence not before that clock reading nor before its
\* predecessor's end; and the cursor is set to the clock when the playback
\* context is created.
C30_NeverScheduledInThePast ==
    [][/\ Len(sched') > Len(sched)
              => LET k == Len(sched')
                 IN /\ sched'[k].at = currentTime
                    /\ sched'[k].start = Max(nextPlayTime, currentTime)
                    /\ sched'[k].start >= currentTime
                    /\ k > 1 => sched'[k].start >= sched'[k - 1].start + sched'[k - 1].dur
       /\ (ctxState = "none" /\ ctxState' # "none") => nextPlayTime' = currentTime]_vars

\* C30 witness: the second chunk was started at the clock, the cursor having
\* fallen behind it, and the third one, queued meanwhile, at the cursor.
C30_Witness ==
    /\ Len(sched) >= 3
    /\ sched[2].at > sched[1].start + sched[1].dur
    /\ sched[2].start = sched[2].at
    /\ sched[3].queuedAt < sched[2].start + sched[2].dur
    /\ sched[3].start = sched[2].start + sched[2].dur

\* The client is connected through an open socket that a reconnect timeout
\* created.
Reconnected ==
    /\ websocket # 0
    /\ sock[websocket].auto
    /\ sock[websocket].st = "open"

\* C31: after a closure that the local side did not request, and with no user
\* action since, connectionState is "connected" only once the client holds an
\* open socket that the reconnection created (until then it is "disconnected",
\* "connecting" or "error"), and the reconnect timeouts do not expire without
\* a connect call.
C31_ReturnsToConnected ==
    (after.abnormal /\ ~after.user)
        => /\ connectionState = "connected" => Reconnected
           /\ TimersDone => after.calls >= 1

\* C32: a socket created by a connect() that a disconnect() found pending
\* does not open, and connectionState does not become "connected", as long as
\* connect has not been called again.
C32_DisconnectCancelsConnect ==
    \A s \in Sockets :
        (sock[s].cut # 0 /\ sock[s].cut = nConn)
            => (sock[s].st # "open" /\ connectionState # "connected")

\* Socket s has been replaced: the client holds another socket or none, and a
\* socket created after s exists.
Replaced(s) ==
    /\ sock[s].st # "free"
    /\ websocket # s
    /\ \E n \in Sockets : n > s /\ sock[n].st # "free"

\* The step just taken ran the close (and error) handlers of socket s.
CloseFired(s) == sock[s].st # "closed" /\ sock'[s].st = "closed"

\* C33: the step that dispatches a frame of a replaced socket, or that runs
\* its error and close handlers, leaves connectionState and the socket the
\* client holds as they are and arms no reconnect timeout.
C33_ReplacedSocketIsInert ==
    [][\A s \in Sockets :
           (Replaced(s) /\ (Dispatched(s) \/ CloseFired(s)))
               => /\ connectionState' = connectionState
                  /\ websocket' = websocket
                  /\ websocket # 0 => sock'[websocket].st = sock[websocket].st
                  /\ timer'[s] = timer[s]]_vars

\* C34: every socket the client created, other than the one it holds, has been
\* closed (close() was called on it, or its connection has ended).
C34_OneLiveSocket ==
    \A s \in Sockets : sock[s].st \in {"connecting", "open"} => websocket = s

\* C35: once the relay's close handler of a connection has run and no
\* live.connect of the connection is pending, the connection has no upstream
\* session that is open or being opened.
C35_UpstreamClosedWithClient ==
    \A s \in Sockets :
        (live[s].wsClosed /\ ~live[s].awaiting) => live[s].up \notin {"pending", "open"}

\* The step just taken ran an iteration of the response loop of connection s.
Polled(s) == live'[s].polls > live[s].polls

\* C36: the response loop of a connection runs no iteration after an upstream
\* message that completes the turn has been delivered, nor after the relay's
\* close handler of the connection has run.
C36_ResponseLoopEnds ==
    [][\A s \in Sockets :
           /\ Polled(s) => ~live[s].wsClosed
           /\ (last = Ran("LiveOnMessage", s, "turnComplete")) => ~Polled(s)]_vars

\* The frames of upstream messages in flight to socket s carry the numbers of
\* their messages in non-decreasing order.
InDeliveryOrder(q) ==
    \A i, j \in 1..Len(q) : (i < j /\ q[i].id > 0 /\ q[j].id > 0) => q[i].id <= q[j].id

\* C37: the audio message the relay hands to a connection's session is the
\* oldest message in flight on the connection, one per step; the frames of an
\* upstream message are appended behind every frame sent to the socket before,
\* so that the frames in flight to a socket are in the order of delivery.
C37_RelayKeepsOrder ==
    [][\A s \in Sockets :
           /\ live'[s].fed > live[s].fed
                  => /\ live'[s].fed = live[s].fed + 1
                     /\ toSrv[s] # <<>>
                     /\ Head(toSrv[s]).type = "audio"
                     /\ toSrv'[s] = Tail(toSrv[s])
           /\ (upCount' > upCount /\ Len(inbox'[s]) > Len(inbox[s]))
                  => /\ SubSeq(inbox'[s], 1, Len(inbox[s])) = inbox[s]
                     /\ \A i \in (Len(inbox[s]) + 1)..Len(inbox'[s]) : inbox'[s][i].id = upCount'
           /\ InDeliveryOrder(inbox'[s])]_vars

\* C37 witness: both captured frames have been handed to the session of the
\* connection, the second one having been in flight behind the first, and a
\* text frame and an audio frame of later upstream messages are in flight to
\* the client behind each other.
C37_Witness ==
    \E s \in Sockets :
        /\ written = {1, 2}
        /\ live[s].fed = 2
        /\ Len(inbox[s]) >= 2
        /\ inbox[s][1].type = "text"
        /\ inbox[s][2].type = "audio"
        /\ inbox[s][1].id < inbox[s][2].id

\* The step just taken ran handleStartRecording.
StartPressed == ~isRecording /\ isRecording'

\* C38: while connectionState is "connecting" or "connected", connect()
\* returns the client as it is (no socket, no pending call, no frame, no
\* notification); and a Start pressed while connected leaves the sockets, the
\* frames in flight and connectionState unchanged and notifies nothing.
C38_ConnectIsIdempotent ==
    /\ [](connectionState \in {"connecting", "connected"}
              => \A cfg \in {"default", "model"}, origin \in {"start", "model", "timer"} :
                     connect(Client, cfg, origin, 0) = Client)
    /\ [][(StartPressed /\ connectionState \in {"connecting", "connected"})
              => /\ connectionState' = connectionState
                 /\ websocket' = websocket
                 /\ sock' = sock
                 /\ toSrv' = toSrv
                 /\ fetches' = fetches
                 /\ nConn' = nConn
                 /\ notes' = <<>>]_vars

\* C38 witness: Start, Stop and Start again have been pressed, the second
\* Start while connected: connect was called twice and went ahead once.
C38_Witness ==
    /\ isRecording
    /\ nUser = 3
    /\ nConn = 1
    /\ connectionState = "connected"
    /\ websocket = 1
    /\ sock[1].st = "open"
    /\ \A s \in Sockets : s # 1 => sock[s].st = "free"

\* C39: the step that delivers an upstream message with several parts to the
\* live callback of an attached connection sends one frame per part.
C39_EveryPartForwarded ==
    [][\A s \in Sockets, kind \in PartsKinds :
           (last' = Ran("LiveOnMessage", s, kind) /\ upCount' > upCount
                /\ sock[s].st \in {"open", "closing"})
               => Len(inbox'[s]) = Len(inbox[s]) + Len(Parts(kind))]_vars

====
